---- MODULE Spec2Model ----
(***************************************************************************)
(* WordSuggest: the suggestion lookup (MockWordSuggestionService), the     *)
(* overlay (MockSuggestionWindow), the selection monitor (MockTextMonitor) *)
(* and the dispatcher (MockAppDelegate) of manual_test_simulation.py.      *)
(*                                                                         *)
(* A Python str is a sequence of one-character strings, so that strip(),   *)
(* lower() and the "in" substring test are computed and not assumed.       *)
(* A confidence is kept in hundredths: 0.8 is 80.                          *)
(***************************************************************************)
EXTENDS Integers, Sequences, FiniteSets, TLC

VARIABLES
  is_monitoring,        \* MockTextMonitor.is_monitoring
  is_visible,           \* MockSuggestionWindow.is_visible
  current_suggestions,  \* MockSuggestionWindow.current_suggestions
  position,             \* MockSuggestionWindow.position
  detected,             \* arguments of the last text_selection_detected call, <<>> if none
  calls,                \* the calls made by the last operation, outermost first
  text,                 \* argument of the service call under study
  result,               \* what that call returned
  pc                    \* "ready" before the service call, "returned" after it

vars == <<is_monitoring, is_visible, current_suggestions, position,
          detected, calls, text, result, pc>>

window == <<is_visible, current_suggestions, position>>

----------------------------------------------------------------------------
(* Bounds of the input space *)

MaxPad == 1     \* whitespace characters put on each side of an input
MaxPunct == 1   \* punctuation marks put after an input

----------------------------------------------------------------------------
(* Characters and the str methods the code uses *)

Lowercase == <<"a","b","c","d","e","f","g","h","i","j","k","l","m",
               "n","o","p","q","r","s","t","u","v","w","x","y","z">>
Uppercase == <<"A","B","C","D","E","F","G","H","I","J","K","L","M",
               "N","O","P","Q","R","S","T","U","V","W","X","Y","Z">>

Whitespace == {" ", "\t", "\n", "\r", "\f"}

Min(S) == CHOOSE x \in S : \A y \in S : x <= y
Max(S) == CHOOSE x \in S : \A y \in S : x >= y

LowerChar(c) ==
  IF \E i \in DOMAIN Uppercase : Uppercase[i] = c
    THEN Lowercase[CHOOSE i \in DOMAIN Uppercase : Uppercase[i] = c]
    ELSE c

\* str.lower()
lower(s) == [i \in 1..Len(s) |-> LowerChar(s[i])]

\* str.strip(): leading and trailing whitespace removed, inner whitespace kept
strip(s) ==
  LET solid == {i \in 1..Len(s) : s[i] \notin Whitespace}
  IN IF solid = {} THEN <<>> ELSE SubSeq(s, Min(solid), Max(solid))

\* a in b, for two str
IsSubstring(a, b) ==
  \E i \in 0..(Len(b) - Len(a)) : SubSeq(b, i + 1, i + Len(a)) = a

\* seq[:n]
Slice(seq, n) ==
  IF n >= 0 THEN SubSeq(seq, 1, Min({n, Len(seq)}))
            ELSE SubSeq(seq, 1, Max({0, Len(seq) + n}))

----------------------------------------------------------------------------
(* MockWordSuggestionService *)

WordSuggestion(word, suggestion_type, confidence) ==
  [word |-> word, type |-> suggestion_type, confidence |-> confidence]

\* the dict of __init__, in insertion order
built_in_synonyms ==
  << [key |-> <<"g","o","o","d">>,
      synonyms |-> << <<"e","x","c","e","l","l","e","n","t">>,
                    <<"g","r","e","a","t">>,
                    <<"w","o","n","d","e","r","f","u","l">>,
                    <<"f","a","n","t","a","s","t","i","c">>,
                    <<"s","u","p","e","r","b">> >>],
     [key |-> <<"b","a","d">>,
      synonyms |-> << <<"t","e","r","r","i","b","l","e">>,
                    <<"a","w","f","u","l">>,
                    <<"h","o","r","r","i","b","l","e">>,
                    <<"p","o","o","r">>,
                    <<"d","r","e","a","d","f","u","l">> >>],
     [key |-> <<"b","i","g">>,
      synonyms |-> << <<"l","a","r","g","e">>,
                    <<"h","u","g","e">>,
                    <<"e","n","o","r","m","o","u","s">>,
                    <<"m","a","s","s","i","v","e">>,
                    <<"g","i","g","a","n","t","i","c">> >>],
     [key |-> <<"s","m","a","l","l">>,
      synonyms |-> << <<"t","i","n","y">>,
                    <<"l","i","t","t","l","e">>,
                    <<"m","i","n","u","t","e">>,
                    <<"p","e","t","i","t","e">>,
                    <<"c","o","m","p","a","c","t">> >>],
     [key |-> <<"f","a","s","t">>,
      synonyms |-> << <<"q","u","i","c","k">>,
                    <<"r","a","p","i","d">>,
                    <<"s","w","i","f","t">>,
                    <<"s","p","e","e","d","y">>,
                    <<"h","a","s","t","y">> >>],
     [key |-> <<"s","l","o","w">>,
      synonyms |-> << <<"g","r","a","d","u","a","l">>,
                    <<"l","e","i","s","u","r","e","l","y">>,
                    <<"s","l","u","g","g","i","s","h">>,
                    <<"u","n","h","u","r","r","i","e","d">>,
                    <<"d","e","l","i","b","e","r","a","t","e">> >>],
     [key |-> <<"h","a","p","p","y">>,
      synonyms |-> << <<"j","o","y","f","u","l">>,
                    <<"c","h","e","e","r","f","u","l">>,
                    <<"d","e","l","i","g","h","t","e","d">>,
                    <<"e","l","a","t","e","d">>,
                    <<"c","o","n","t","e","n","t">> >>],
     [key |-> <<"s","a","d">>,
      synonyms |-> << <<"s","o","r","r","o","w","f","u","l">>,
                    <<"m","e","l","a","n","c","h","o","l","y">>,
                    <<"d","e","j","e","c","t","e","d">>,
                    <<"g","l","o","o","m","y">>,
                    <<"m","o","u","r","n","f","u","l">> >>],
     [key |-> <<"b","e","a","u","t","i","f","u","l">>,
      synonyms |-> << <<"g","o","r","g","e","o","u","s">>,
                    <<"s","t","u","n","n","i","n","g">>,
                    <<"a","t","t","r","a","c","t","i","v","e">>,
                    <<"l","o","v","e","l","y">>,
                    <<"m","a","g","n","i","f","i","c","e","n","t">> >>],
     [key |-> <<"u","g","l","y">>,
      synonyms |-> << <<"h","i","d","e","o","u","s">>,
                    <<"u","n","s","i","g","h","t","l","y">>,
                    <<"r","e","p","u","l","s","i","v","e">>,
                    <<"g","r","o","t","e","s","q","u","e">>,
                    <<"u","n","a","t","t","r","a","c","t","i","v","e">> >>],
     [key |-> <<"s","m","a","r","t">>,
      synonyms |-> << <<"i","n","t","e","l","l","i","g","e","n","t">>,
                    <<"b","r","i","l","l","i","a","n","t">>,
                    <<"c","l","e","v","e","r">>,
                    <<"w","i","s","e">>,
                    <<"s","h","a","r","p">> >>],
     [key |-> <<"s","t","u","p","i","d">>,
      synonyms |-> << <<"f","o","o","l","i","s","h">>,
                    <<"i","g","n","o","r","a","n","t">>,
                    <<"d","u","m","b">>,
                    <<"s","e","n","s","e","l","e","s","s">>,
                    <<"m","i","n","d","l","e","s","s">> >>],
     [key |-> <<"i","m","p","o","r","t","a","n","t">>,
      synonyms |-> << <<"s","i","g","n","i","f","i","c","a","n","t">>,
                    <<"c","r","u","c","i","a","l">>,
                    <<"v","i","t","a","l">>,
                    <<"e","s","s","e","n","t","i","a","l">>,
                    <<"c","r","i","t","i","c","a","l">> >>],
     [key |-> <<"e","a","s","y">>,
      synonyms |-> << <<"s","i","m","p","l","e">>,
                    <<"e","f","f","o","r","t","l","e","s","s">>,
                    <<"s","t","r","a","i","g","h","t","f","o","r","w","a","r","d">>,
                    <<"u","n","c","o","m","p","l","i","c","a","t","e","d">>,
                    <<"b","a","s","i","c">> >>],
     [key |-> <<"d","i","f","f","i","c","u","l","t">>,
      synonyms |-> << <<"c","h","a","l","l","e","n","g","i","n","g">>,
                    <<"t","o","u","g","h">>,
                    <<"d","e","m","a","n","d","i","n","g">>,
                    <<"c","o","m","p","l","e","x">>,
                    <<"a","r","d","u","o","u","s">> >>],
     [key |-> <<"n","e","w">>,
      synonyms |-> << <<"f","r","e","s","h">>,
                    <<"r","e","c","e","n","t">>,
                    <<"m","o","d","e","r","n">>,
                    <<"n","o","v","e","l">>,
                    <<"c","o","n","t","e","m","p","o","r","a","r","y">> >>],
     [key |-> <<"o","l","d">>,
      synonyms |-> << <<"a","n","c","i","e","n","t">>,
                    <<"v","i","n","t","a","g","e">>,
                    <<"a","g","e","d">>,
                    <<"e","l","d","e","r","l","y">>,
                    <<"a","n","t","i","q","u","e">> >>],
     [key |-> <<"h","o","t">>,
      synonyms |-> << <<"w","a","r","m">>,
                    <<"s","c","o","r","c","h","i","n","g">>,
                    <<"b","l","a","z","i","n","g">>,
                    <<"s","w","e","l","t","e","r","i","n","g">>,
                    <<"b","o","i","l","i","n","g">> >>],
     [key |-> <<"c","o","l","d">>,
      synonyms |-> << <<"f","r","i","g","i","d">>,
                    <<"f","r","e","e","z","i","n","g">>,
                    <<"c","h","i","l","l","y">>,
                    <<"i","c","y">>,
                    <<"a","r","c","t","i","c">> >>],
     [key |-> <<"b","r","i","g","h","t">>,
      synonyms |-> << <<"l","u","m","i","n","o","u","s">>,
                    <<"r","a","d","i","a","n","t">>,
                    <<"b","r","i","l","l","i","a","n","t">>,
                    <<"v","i","v","i","d">>,
                    <<"g","l","e","a","m","i","n","g">> >>] >>

general_alternatives ==
  << <<"a","l","t","e","r","n","a","t","i","v","e">>,
     <<"o","p","t","i","o","n">>,
     <<"c","h","o","i","c","e">>,
     <<"v","a","r","i","a","n","t">>,
     <<"s","u","b","s","t","i","t","u","t","e">> >>

mock_responses ==
  << [key |-> <<"g","o","o","d">>,
      response_data |->
       << [word |-> <<"e","x","c","e","l","l","e","n","t">>, type |-> "synonym", confidence |-> 95],
          [word |-> <<"o","u","t","s","t","a","n","d","i","n","g">>, type |-> "synonym", confidence |-> 90],
          [word |-> <<"s","u","p","e","r","b">>, type |-> "synonym", confidence |-> 85],
          [word |-> <<"p","o","s","i","t","i","v","e">>, type |-> "alternative", confidence |-> 80],
          [word |-> <<"b","e","n","e","f","i","c","i","a","l">>, type |-> "alternative", confidence |-> 75],
          [word |-> <<"q","u","a","l","i","t","y">>, type |-> "related", confidence |-> 70],
          [word |-> <<"v","i","r","t","u","e">>, type |-> "related", confidence |-> 65],
          [word |-> <<"s","t","e","l","l","a","r">>, type |-> "creative", confidence |-> 60] >>],
     [key |-> <<"f","a","s","t">>,
      response_data |->
       << [word |-> <<"q","u","i","c","k">>, type |-> "synonym", confidence |-> 95],
          [word |-> <<"r","a","p","i","d">>, type |-> "synonym", confidence |-> 90],
          [word |-> <<"s","w","i","f","t">>, type |-> "synonym", confidence |-> 85],
          [word |-> <<"s","p","e","e","d","y">>, type |-> "alternative", confidence |-> 80],
          [word |-> <<"h","a","s","t","y">>, type |-> "alternative", confidence |-> 75],
          [word |-> <<"v","e","l","o","c","i","t","y">>, type |-> "related", confidence |-> 70],
          [word |-> <<"a","c","c","e","l","e","r","a","t","i","o","n">>, type |-> "related", confidence |-> 65],
          [word |-> <<"l","i","g","h","t","n","i","n","g">>, type |-> "creative", confidence |-> 60] >>] >>

Keys == {built_in_synonyms[i].key : i \in DOMAIN built_in_synonyms}

HasKey(clean_text) == clean_text \in Keys

Lookup(clean_text) ==
  built_in_synonyms[CHOOSE i \in DOMAIN built_in_synonyms :
                      built_in_synonyms[i].key = clean_text].synonyms

\* the keys a partial match accepts, as positions in the dict
PartialKeys(clean_text) ==
  {i \in DOMAIN built_in_synonyms :
     \/ IsSubstring(built_in_synonyms[i].key, clean_text)
     \/ IsSubstring(clean_text, built_in_synonyms[i].key)}

PunctChars == {"!", "."}

\* s without its trailing punctuation marks
rstrip_punct(s) ==
  LET solid == {i \in 1..Len(s) : s[i] \notin PunctChars}
  IN IF solid = {} THEN <<>> ELSE SubSeq(s, 1, Max(solid))

\* clean, were the text not lower-cased
clean_cased(t) == strip(t)

\* clean, were trailing punctuation stripped as well
clean_unpunctuated(t) == rstrip_punct(lower(strip(t)))

clean(t) == lower(strip(t))

\* exact_match, were it to keep 3 candidates as the partial match does
exact_match_short(clean_text) ==
  IF HasKey(clean_text)
    THEN LET synonyms == Slice(Lookup(clean_text), 3)
         IN [i \in 1..Len(synonyms) |-> WordSuggestion(synonyms[i], "synonym", 80)]
    ELSE <<>>

\* "Look for exact matches"
exact_match(clean_text) ==
  IF HasKey(clean_text)
    THEN LET synonyms == Slice(Lookup(clean_text), 5)
         IN [i \in 1..Len(synonyms) |-> WordSuggestion(synonyms[i], "synonym", 80)]
    ELSE <<>>

\* partial_match, were the loop to run on and keep the last accepted key
partial_match_last(clean_text, suggestions) ==
  IF suggestions = <<>> /\ PartialKeys(clean_text) # {}
    THEN LET synonyms == Slice(built_in_synonyms[Max(PartialKeys(clean_text))].synonyms, 3)
         IN [i \in 1..Len(synonyms) |-> WordSuggestion(synonyms[i], "related", 60)]
    ELSE suggestions

\* partial_match, were it to run after an exact match too and extend the list
partial_match_unguarded(clean_text, suggestions) ==
  IF PartialKeys(clean_text) # {}
    THEN LET synonyms == Slice(built_in_synonyms[Min(PartialKeys(clean_text))].synonyms, 3)
         IN suggestions \o
            [i \in 1..Len(synonyms) |-> WordSuggestion(synonyms[i], "related", 60)]
    ELSE suggestions

\* "Look for partial matches": the loop breaks at the first accepted key
partial_match(clean_text, suggestions) ==
  IF suggestions = <<>> /\ PartialKeys(clean_text) # {}
    THEN LET synonyms == Slice(built_in_synonyms[Min(PartialKeys(clean_text))].synonyms, 3)
         IN [i \in 1..Len(synonyms) |-> WordSuggestion(synonyms[i], "related", 60)]
    ELSE suggestions

\* add_general_alternatives, were it to pad up to 3 entries
add_general_alternatives_to3(suggestions) ==
  IF Len(suggestions) < 3
    THEN LET alts == Slice(general_alternatives, 3 - Len(suggestions))
         IN suggestions \o [i \in 1..Len(alts) |-> WordSuggestion(alts[i], "alternative", 40)]
    ELSE suggestions

\* add_general_alternatives, were the padding left out
add_general_alternatives_none(suggestions) == suggestions

\* "Add general alternatives if needed"
add_general_alternatives(suggestions) ==
  IF Len(suggestions) < 3
    THEN LET alts == Slice(general_alternatives, 5 - Len(suggestions))
         IN suggestions \o [i \in 1..Len(alts) |-> WordSuggestion(alts[i], "alternative", 40)]
    ELSE suggestions

get_suggestions(t) ==
  LET clean_text == clean(t)
  IN add_general_alternatives(partial_match(clean_text, exact_match(clean_text)))

\* None is <<>>: every canned reply is a non-empty list
None == <<>>

simulate_openai_response(t) ==
  IF \E i \in DOMAIN mock_responses : mock_responses[i].key = lower(t)
    THEN mock_responses[CHOOSE i \in DOMAIN mock_responses :
                          mock_responses[i].key = lower(t)].response_data
    ELSE None

----------------------------------------------------------------------------
(* The texts the operations are tried on *)

upper(s) ==
  [i \in 1..Len(s) |->
     IF \E k \in DOMAIN Lowercase : Lowercase[k] = s[i]
       THEN Uppercase[CHOOSE k \in DOMAIN Lowercase : Lowercase[k] = s[i]]
       ELSE s[i]]

swapcase(s) ==
  [i \in 1..Len(s) |-> IF LowerChar(s[i]) = s[i] THEN upper(<<s[i]>>)[1] ELSE LowerChar(s[i])]

capitalize(s) == IF s = <<>> THEN s ELSE upper(<<s[1]>>) \o Tail(s)

SeqsUpTo(S, n) == UNION {[1..k -> S] : k \in 0..n}

PadChars == {" ", "\t"}

BaseWords ==
  { <<>>,
    <<"g","o","o","d">>,
    <<"h","a","p","p","y">>,
    <<"f","a","s","t">>,
    <<"c","o","l","d">>,
    <<"b","e","a","u","t","i">>,
    <<"u","n","k","n","o","w","n","w","o","r","d">>,
    <<"v","e","r","y"," ","g","o","o","d">>,
    <<"o">>,
    <<"c","o","l","d","s">>,
    <<"q","z">>,
    <<"n","o","t"," ","b","a","d">> }

Cased == UNION {{w, upper(w), capitalize(w)} : w \in BaseWords}

\* every base word, in three casings, with trailing punctuation and padded with whitespace
Inputs ==
  {l \o w \o p \o r : l \in SeqsUpTo(PadChars, MaxPad), w \in Cased,
                       p \in SeqsUpTo(PunctChars, MaxPunct), r \in SeqsUpTo(PadChars, MaxPad)}

\* the selections of run_manual_tests, and a few more
Selections ==
  { <<"g","o","o","d">>,
    <<"u","n","k","n","o","w","n","w","o","r","d">>,
    <<" "," "," ">>,
    <<"H","A","P","P","Y">>,
    <<"b","e","a","u","t","i">>,
    <<"v","e","r","y"," ","g","o","o","d">>,
    <<"g","o","o","d","!">>,
    <<>>,
    <<"f","a","s","t">>,
    <<" ","F","a","s","t"," ">>,
    <<"\t">>,
    <<"\t","q"," ">> }

Positions == {<<150, 300>>, <<200, 400>>}

----------------------------------------------------------------------------
(* MockSuggestionWindow *)

\* show_suggestions, were a window that is already visible left as it is
show_suggestions_keep(suggestions, pos) ==
  IF is_visible
    THEN UNCHANGED window
    ELSE /\ current_suggestions' = suggestions
         /\ position' = pos
         /\ is_visible' = (Len(suggestions) > 0)

show_suggestions(suggestions, pos) ==
  /\ current_suggestions' = suggestions
  /\ position' = pos
  /\ is_visible' = (Len(suggestions) > 0)

\* hide, were the list of suggestions kept
hide_stale ==
  /\ is_visible' = FALSE
  /\ UNCHANGED <<current_suggestions, position>>

hide ==
  /\ is_visible' = FALSE
  /\ current_suggestions' = <<>>
  /\ UNCHANGED position

----------------------------------------------------------------------------
(* MockAppDelegate and MockTextMonitor *)

\* text_selection_detected, without the check for an empty selection
text_selection_detected_unchecked(t, pos) ==
  LET clean_text == strip(t)
      suggestions == get_suggestions(clean_text)
  IN /\ detected' = <<[text |-> t, position |-> pos]>>
     /\ text' = clean_text
     /\ result' = suggestions
     /\ pc' = "returned"
     /\ IF suggestions # <<>>
          THEN /\ show_suggestions(suggestions, pos)
               /\ calls' = <<"text_selection_detected", "get_suggestions",
                             "show_suggestions">>
          ELSE /\ UNCHANGED window
               /\ calls' = <<"text_selection_detected", "get_suggestions">>

\* text_selection_detected, were an empty selection to hide the window
text_selection_detected_hiding(t, pos) ==
  LET clean_text == strip(t)
  IN /\ detected' = <<[text |-> t, position |-> pos]>>
     /\ IF clean_text = <<>>
          THEN /\ hide
               /\ calls' = <<"text_selection_detected", "hide">>
               /\ UNCHANGED <<text, result, pc>>
          ELSE LET suggestions == get_suggestions(clean_text)
               IN /\ text' = clean_text
                  /\ result' = suggestions
                  /\ pc' = "returned"
                  /\ IF suggestions # <<>>
                       THEN /\ show_suggestions(suggestions, pos)
                            /\ calls' = <<"text_selection_detected", "get_suggestions",
                                          "show_suggestions">>
                       ELSE /\ UNCHANGED window
                            /\ calls' = <<"text_selection_detected", "get_suggestions">>

\* text_selection_detected, were the canned remote reply appended to the local result
text_selection_detected_merging(t, pos) ==
  LET clean_text == strip(t)
  IN /\ detected' = <<[text |-> t, position |-> pos]>>
     /\ IF clean_text = <<>>
          THEN /\ calls' = <<"text_selection_detected">>
               /\ UNCHANGED <<window, text, result, pc>>
          ELSE LET suggestions == get_suggestions(clean_text)
                                    \o simulate_openai_response(clean_text)
               IN /\ text' = clean_text
                  /\ result' = suggestions
                  /\ pc' = "returned"
                  /\ IF suggestions # <<>>
                       THEN /\ show_suggestions(suggestions, pos)
                            /\ calls' = <<"text_selection_detected", "get_suggestions",
                                          "show_suggestions">>
                       ELSE /\ UNCHANGED window
                            /\ calls' = <<"text_selection_detected", "get_suggestions">>

\* text_selection_detected, were only the canned remote reply presented
text_selection_detected_remote_only(t, pos) ==
  LET clean_text == strip(t)
  IN /\ detected' = <<[text |-> t, position |-> pos]>>
     /\ IF clean_text = <<>>
          THEN /\ calls' = <<"text_selection_detected">>
               /\ UNCHANGED <<window, text, result, pc>>
          ELSE LET suggestions == simulate_openai_response(clean_text)
               IN /\ text' = clean_text
                  /\ result' = suggestions
                  /\ pc' = "returned"
                  /\ IF suggestions # <<>>
                       THEN /\ show_suggestions(suggestions, pos)
                            /\ calls' = <<"text_selection_detected", "get_suggestions",
                                          "show_suggestions">>
                       ELSE /\ UNCHANGED window
                            /\ calls' = <<"text_selection_detected", "get_suggestions">>

text_selection_detected(t, pos) ==
  LET clean_text == strip(t)
  IN /\ detected' = <<[text |-> t, position |-> pos]>>
     /\ IF clean_text = <<>>
          THEN \* "Empty text selection ignored"
               /\ calls' = <<"text_selection_detected">>
               /\ UNCHANGED <<window, text, result, pc>>
          ELSE LET suggestions == get_suggestions(clean_text)
               IN /\ text' = clean_text
                  /\ result' = suggestions
                  /\ pc' = "returned"
                  /\ IF suggestions # <<>>
                       THEN /\ show_suggestions(suggestions, pos)
                            /\ calls' = <<"text_selection_detected", "get_suggestions",
                                          "show_suggestions">>
                       ELSE \* "No suggestions found"
                            /\ UNCHANGED window
                            /\ calls' = <<"text_selection_detected", "get_suggestions">>

\* simulate_text_selection, without the check of is_monitoring
simulate_text_selection_always(t, pos) ==
  /\ text_selection_detected(t, pos)
  /\ UNCHANGED is_monitoring

simulate_text_selection(t, pos) ==
  \/ /\ ~is_monitoring
     /\ calls' = <<>>
     /\ UNCHANGED <<is_monitoring, window, detected, text, result, pc>>
  \/ /\ is_monitoring
     /\ text_selection_detected(t, pos)
     /\ UNCHANGED is_monitoring

start_application ==
  /\ is_monitoring' = TRUE
  /\ calls' = <<"start_monitoring">>
  /\ UNCHANGED <<window, detected, text, result, pc>>

\* stop_application, were the window not hidden
stop_application_no_hide ==
  /\ is_monitoring' = FALSE
  /\ calls' = <<"stop_monitoring">>
  /\ UNCHANGED <<window, detected, text, result, pc>>

stop_application ==
  /\ is_monitoring' = FALSE
  /\ hide
  /\ calls' = <<"stop_monitoring", "hide">>
  /\ UNCHANGED <<detected, text, result, pc>>

\* "Test 9: OpenAI API Simulation" of run_manual_tests
openai_simulation(t, pos) ==
  LET openai_suggestions == simulate_openai_response(t)
  IN /\ IF openai_suggestions # None
          THEN /\ show_suggestions(openai_suggestions, pos)
               /\ calls' = <<"simulate_openai_response", "show_suggestions">>
          ELSE /\ UNCHANGED window
               /\ calls' = <<"simulate_openai_response">>
     /\ UNCHANGED <<is_monitoring, detected, text, result, pc>>

\* the lists a caller hands to the window directly: the empty one and a short one
Lists ==
  {[i \in 1..n |-> WordSuggestion(general_alternatives[i], "alternative", 40)] : n \in 0..1}

\* suggestion_window.show_suggestions called from outside the delegate
call_show_suggestions(suggestions, pos) ==
  /\ show_suggestions(suggestions, pos)
  /\ calls' = <<"show_suggestions">>
  /\ UNCHANGED <<is_monitoring, detected, text, result, pc>>

\* suggestion_window.hide called from outside the delegate
call_hide ==
  /\ hide
  /\ calls' = <<"hide">>
  /\ UNCHANGED <<is_monitoring, detected, text, result, pc>>

\* the state MockAppDelegate() constructs
Constructed ==
  /\ is_monitoring = FALSE
  /\ is_visible = FALSE
  /\ current_suggestions = <<>>
  /\ position = <<0, 0>>
  /\ detected = <<>>
  /\ calls = <<>>

Init ==
  /\ Constructed
  /\ text = <<>>
  /\ result = <<>>
  /\ pc = "ready"

Next ==
  \/ start_application
  \/ stop_application
  \/ \E t \in Selections, pos \in Positions : simulate_text_selection(t, pos)
  \/ \E t \in Selections, pos \in Positions : openai_simulation(t, pos)
  \/ \E suggestions \in Lists, pos \in Positions : call_show_suggestions(suggestions, pos)
  \/ call_hide

Spec == Init /\ [][Next]_vars

----------------------------------------------------------------------------
(* The lookup on its own: one text, one call of get_suggestions *)

LookupInit ==
  /\ Constructed
  /\ text \in Inputs
  /\ result = <<>>
  /\ pc = "ready"

call_get_suggestions ==
  /\ pc = "ready"
  /\ result' = get_suggestions(text)
  /\ pc' = "returned"
  /\ UNCHANGED <<is_monitoring, window, detected, calls, text>>

LookupNext == call_get_suggestions

LookupSpec == LookupInit /\ [][LookupNext]_vars

----------------------------------------------------------------------------
(* Properties of get_suggestions, checked under LookupSpec *)

Tagged(ws, suggestion_type, confidence) ==
  [i \in 1..Len(ws) |-> WordSuggestion(ws[i], suggestion_type, confidence)]

\* position i of the dict is the first whose key occurs in s or contains s
FirstAccepted(i, s) ==
  LET Accepts(k) == \/ IsSubstring(built_in_synonyms[k].key, s)
                    \/ IsSubstring(s, built_in_synonyms[k].key)
  IN /\ i \in DOMAIN built_in_synonyms
     /\ Accepts(i)
     /\ \A j \in 1..(i - 1) : ~Accepts(j)

\* C1: a text whose trimmed, lower-cased form is a key gets exactly the first 5
\* stored candidates of that key, in stored order, each a synonym at 0.8; for
\* "good" these are excellent, great, wonderful, fantastic, superb.
C1_ExactMatch ==
  pc = "returned" =>
    /\ \A k \in DOMAIN built_in_synonyms :
         lower(strip(text)) = built_in_synonyms[k].key =>
           /\ Len(result) = 5
           /\ result = Tagged(SubSeq(built_in_synonyms[k].synonyms, 1, 5), "synonym", 80)
    /\ lower(strip(text)) = <<"g","o","o","d">> =>
         result = Tagged(<<<<"e","x","c","e","l","l","e","n","t">>, <<"g","r","e","a","t">>, <<"w","o","n","d","e","r","f","u","l">>, <<"f","a","n","t","a","s","t","i","c">>, <<"s","u","p","e","r","b">>>>, "synonym", 80)

C1_Witness ==
  /\ pc = "returned"
  /\ text = <<" ">> \o upper(<<"g","o","o","d">>) \o <<" ">>
  /\ Len(result) = 5
  /\ result[5].word = <<"s","u","p","e","r","b">>

\* C2 as stated: a non-empty text that no key matches, exactly or as a substring,
\* gets exactly alternative, option, choice, each an alternative at 0.4.
C2_FillerIsThree ==
  (/\ pc = "returned"
   /\ strip(text) # <<>>
   /\ \A k \in DOMAIN built_in_synonyms : ~FirstAccepted(k, lower(strip(text)))) =>
    result = Tagged(SubSeq(general_alternatives, 1, 3), "alternative", 40)

\* C2, amended: such a text gets all 5 fillers (alternative, option, choice,
\* variant, substitute), each an alternative at 0.4; padding starts only below
\* 3 entries and then fills the list up to 5.
C2_FillerIsFive ==
  (/\ pc = "returned"
   /\ strip(text) # <<>>
   /\ \A k \in DOMAIN built_in_synonyms : ~FirstAccepted(k, lower(strip(text)))) =>
    /\ result = Tagged(<<<<"a","l","t","e","r","n","a","t","i","v","e">>,
                        <<"o","p","t","i","o","n">>,
                        <<"c","h","o","i","c","e">>,
                        <<"v","a","r","i","a","n","t">>,
                        <<"s","u","b","s","t","i","t","u","t","e">>>>, "alternative", 40)
    /\ \A n \in 0..2 :
         LET padded == add_general_alternatives(SubSeq(result, 1, n))
         IN Len(padded) = 5 /\ SubSeq(padded, 1, n) = SubSeq(result, 1, n)
    /\ \A n \in 3..5 :
         add_general_alternatives(SubSeq(result, 1, n)) = SubSeq(result, 1, n)

C2_Witness ==
  /\ pc = "returned"
  /\ lower(strip(text)) = <<"u","n","k","n","o","w","n","w","o","r","d">>
  /\ Len(result) = 5
  /\ result[4].word = <<"v","a","r","i","a","n","t">>

\* C3: without an exact match, a text that some key occurs in or contains gets
\* exactly the first 3 candidates of the first such key in insertion order, each
\* related at 0.6 ("beauti": gorgeous, stunning, attractive); with an exact match
\* nothing is tagged related.
C3_PartialFirstKey ==
  pc = "returned" =>
    /\ \A k \in DOMAIN built_in_synonyms :
         (/\ FirstAccepted(k, lower(strip(text)))
          /\ \A e \in DOMAIN built_in_synonyms :
               built_in_synonyms[e].key # lower(strip(text))) =>
           result = Tagged(SubSeq(built_in_synonyms[k].synonyms, 1, 3), "related", 60)
    /\ lower(strip(text)) = <<"b","e","a","u","t","i">> =>
         result = Tagged(<<<<"g","o","r","g","e","o","u","s">>, <<"s","t","u","n","n","i","n","g">>, <<"a","t","t","r","a","c","t","i","v","e">>>>, "related", 60)
    /\ (\E e \in DOMAIN built_in_synonyms :
          built_in_synonyms[e].key = lower(strip(text))) =>
         \A i \in DOMAIN result : result[i].type # "related"

\* "colds" contains old and cold: old is the earlier key
C3_Witness ==
  /\ pc = "returned"
  /\ lower(strip(text)) = <<"c","o","l","d","s">>
  /\ Cardinality({k \in DOMAIN built_in_synonyms :
                    IsSubstring(built_in_synonyms[k].key, <<"c","o","l","d","s">>)}) = 2
  /\ Len(result) = 3
  /\ result[1].word = <<"a","n","c","i","e","n","t">>

\* C4: a text and its re-casings (upper, lower, swapped) get the same list.
C4_CaseInsensitive ==
  pc = "returned" =>
    \A v \in {upper(text), lower(text), swapcase(text)} : get_suggestions(v) = result

C4_Witness ==
  /\ pc = "returned"
  /\ text = capitalize(<<"h","a","p","p","y">>)
  /\ upper(text) # text
  /\ lower(text) # text
  /\ result[1].type = "synonym"

\* C5: a text that is empty after trimming gets the empty list.
C5_EmptyTextEmptyResult ==
  (pc = "returned" /\ strip(text) = <<>>) => result = <<>>

\* C8 as stated: a key followed by a punctuation mark gets what the key gets,
\* its first 5 candidates as synonyms at 0.8.
C8_PunctuationStripped ==
  pc = "returned" =>
    \A k \in DOMAIN built_in_synonyms, p \in PunctChars :
      lower(strip(text)) = built_in_synonyms[k].key \o <<p>> =>
        result = Tagged(SubSeq(built_in_synonyms[k].synonyms, 1, 5), "synonym", 80)

\* C8, amended: only whitespace is trimmed and case folded; a key followed by a
\* punctuation mark takes the partial match and gets the first 3 candidates of the
\* first key, in insertion order, that occurs in the key, each related at 0.6.
C8_PunctuationKept ==
  pc = "returned" =>
    \A k \in DOMAIN built_in_synonyms, p \in PunctChars :
      lower(strip(text)) = built_in_synonyms[k].key \o <<p>> =>
        \E f \in 1..k :
          /\ IsSubstring(built_in_synonyms[f].key, built_in_synonyms[k].key)
          /\ \A j \in 1..(f - 1) :
               ~IsSubstring(built_in_synonyms[j].key, built_in_synonyms[k].key)
          /\ result = Tagged(SubSeq(built_in_synonyms[f].synonyms, 1, 3), "related", 60)

\* "cold!" gets the candidates of old
C8_Witness ==
  /\ pc = "returned"
  /\ lower(strip(text)) = <<"c","o","l","d">> \o <<"!">>
  /\ Len(result) = 3
  /\ result[1] = WordSuggestion(<<"a","n","c","i","e","n","t">>, "related", 60)

\* C9: for a non-empty text no two entries of the list have the same word, case
\* ignored, and the confidences never increase along the list.
C9_DistinctAndOrdered ==
  (pc = "returned" /\ strip(text) # <<>>) =>
    \A i, j \in DOMAIN result :
      i < j => /\ lower(result[i].word) # lower(result[j].word)
               /\ result[i].confidence >= result[j].confidence

C9_Witness ==
  /\ pc = "returned"
  /\ strip(text) # <<>>
  /\ Len(result) = 5
  /\ result[1].type = "synonym"
  /\ Cardinality({lower(result[i].word) : i \in DOMAIN result}) = 5

----------------------------------------------------------------------------
(* Properties of the dispatcher and the window, checked under Spec *)

\* the last operation was text_selection_detected, on an empty or whitespace-only text
HandledEmpty(d, c) ==
  /\ c # <<>>
  /\ c[1] = "text_selection_detected"
  /\ d # <<>>
  /\ strip(d[1].text) = <<>>

\* C6: an empty or whitespace-only selection that reaches text_selection_detected
\* is discarded: neither get_suggestions nor show_suggestions is called for it.
C6_EmptyDiscarded ==
  HandledEmpty(detected, calls) => calls = <<"text_selection_detected">>

C6_Witness ==
  /\ calls = <<"text_selection_detected">>
  /\ detected[1].text = <<" ", " ", " ">>
  /\ is_monitoring

\* C7 as stated: once an empty selection is handled the window is hidden and
\* holds no suggestions.
C7_EmptyHidesWindow ==
  HandledEmpty(detected, calls) => (~is_visible /\ current_suggestions = <<>>)

\* C7, amended: handling an empty selection leaves the window as it was
\* (is_visible, current_suggestions and position unchanged), so an overlay
\* shown for an earlier selection stays visible.
C7_EmptyLeavesWindow ==
  [][HandledEmpty(detected', calls') => UNCHANGED window]_vars

C7_Witness ==
  /\ HandledEmpty(detected, calls)
  /\ is_visible
  /\ current_suggestions # <<>>

\* C10 as stated: whatever show_suggestions was given, the window holds at most
\* 5 suggestions.
C10_AtMostFive ==
  Len(current_suggestions) <= 5

\* C10, amended: what text_selection_detected hands over from the local lookup
\* has at most 5 entries; the canned remote reply is handed over whole, 8
\* entries, so the window holds at most 8 suggestions.
C10_AtMostEight ==
  /\ Len(current_suggestions) <= 8
  /\ calls = <<"text_selection_detected", "get_suggestions", "show_suggestions">> =>
       Len(current_suggestions) <= 5

C10_Witness ==
  /\ calls = <<"simulate_openai_response", "show_suggestions">>
  /\ Len(current_suggestions) = 8
  /\ is_visible

\* the last operation was text_selection_detected, on a text that is not empty once trimmed
HandledText(d, c) ==
  /\ c # <<>>
  /\ c[1] = "text_selection_detected"
  /\ d # <<>>
  /\ strip(d[1].text) # <<>>

\* C11: last write wins. Each accepted trigger with a non-empty text puts its own
\* suggestions and its own origin point in the window, whatever an earlier trigger
\* left there; a trigger with an empty text leaves what the most recent non-empty
\* one presented.
C11_LastWriteWins ==
  [][(calls' # <<>> /\ calls'[1] = "text_selection_detected") =>
       IF strip(detected'[1].text) # <<>>
         THEN /\ current_suggestions' = get_suggestions(strip(detected'[1].text))
              /\ position' = detected'[1].position
              /\ is_visible'
         ELSE UNCHANGED window]_vars

C11_Witness ==
  /\ HandledText(detected, calls)
  /\ detected[1] = [text |-> <<"u","n","k","n","o","w","n","w","o","r","d">>, position |-> <<200, 400>>]
  /\ text = <<"u","n","k","n","o","w","n","w","o","r","d">>
  /\ position = <<200, 400>>
  /\ current_suggestions[1].word = <<"a","l","t","e","r","n","a","t","i","v","e">>

\* C12: when the remote suggester has a reply for the selected text ("good",
\* "fast"), what is presented for that selection is exactly the remote reply.
C12_RemoteReplacesLocal ==
  (/\ HandledText(detected, calls)
   /\ simulate_openai_response(strip(detected[1].text)) # None) =>
    current_suggestions = simulate_openai_response(strip(detected[1].text))

\* C13: when the remote suggester has no reply for the selected text, what is
\* presented is exactly what get_suggestions alone returns for it, and the handler
\* runs to its end as for any other selection.
C13_RemoteNoneLocalStands ==
  (/\ HandledText(detected, calls)
   /\ simulate_openai_response(detected[1].text) = None
   /\ simulate_openai_response(strip(detected[1].text)) = None) =>
    /\ current_suggestions = get_suggestions(detected[1].text)
    /\ is_visible
    /\ calls = <<"text_selection_detected", "get_suggestions", "show_suggestions">>

C13_Witness ==
  /\ HandledText(detected, calls)
  /\ detected[1].text = upper(<<"h","a","p","p","y">>)
  /\ simulate_openai_response(detected[1].text) = None
  /\ Len(current_suggestions) = 5
  /\ current_suggestions[1] = WordSuggestion(<<"j","o","y","f","u","l">>, "synonym", 80)

\* C14: while the monitor is not monitoring, simulate_text_selection does not
\* call the delegate and leaves is_visible, current_suggestions and position as
\* they were.
C14_NotMonitoringNoEffect ==
  /\ [](calls # <<>> /\ calls[1] = "text_selection_detected" => is_monitoring)
  /\ [][(/\ ~is_monitoring
         /\ (calls' = <<>> \/ calls'[1] = "text_selection_detected")) =>
          (calls' = <<>> /\ UNCHANGED <<window, detected, is_monitoring>>)]_vars

\* a selection was rejected while an overlay put up from outside is visible
C14_Witness ==
  /\ ~is_monitoring
  /\ calls = <<>>
  /\ is_visible
  /\ Len(current_suggestions) = 8

\* C15: stop_application turns monitoring off and hides the window, emptying
\* current_suggestions; simulated selections that follow leave it hidden and
\* empty for as long as start_application is not called.
C15_StoppedStaysHidden ==
  /\ []((calls # <<>> /\ calls[1] = "stop_monitoring") =>
          (~is_monitoring /\ ~is_visible /\ current_suggestions = <<>>))
  /\ [][(/\ ~is_monitoring
         /\ ~is_visible
         /\ current_suggestions = <<>>
         /\ (calls' = <<>> \/ calls'[1] = "text_selection_detected")) =>
          (~is_monitoring' /\ ~is_visible' /\ current_suggestions' = <<>>)]_vars

\* stopped after a selection had been handled, then a selection rejected
C15_Witness ==
  /\ ~is_monitoring
  /\ ~is_visible
  /\ current_suggestions = <<>>
  /\ calls = <<>>
  /\ detected # <<>>
  /\ position = detected[1].position

\* C16: the window is visible exactly when it holds suggestions.
C16_VisibleIffSuggestions ==
  is_visible <=> (current_suggestions # <<>>)

\* the empty list was handed to a window that was showing suggestions
C16_Witness ==
  /\ calls = <<"show_suggestions">>
  /\ ~is_visible
  /\ current_suggestions = <<>>
  /\ position # <<0, 0>>
  /\ detected # <<>>

\* C17: get_suggestions returns between 3 and 5 entries, never none, so the
\* "No suggestions found" branch is never taken and a selection with a non-empty
\* trimmed text, accepted while monitoring, leaves the window visible at the
\* position of that selection.
C17_NeverEmpty ==
  /\ \A t \in Selections : Len(get_suggestions(t)) \in 3..5
  /\ pc = "returned" => Len(result) \in 3..5
  /\ calls # <<"text_selection_detected", "get_suggestions">>
  /\ HandledText(detected, calls) =>
       /\ is_monitoring
       /\ is_visible
       /\ position = detected[1].position
       /\ current_suggestions = result

C17_Witness ==
  /\ HandledText(detected, calls)
  /\ detected[1].text = <<"\t", "q", " ">>
  /\ position = <<150, 300>>
  /\ is_visible
  /\ Len(result) = 5

====
